---- MODULE Spec2Model ----
(***************************************************************************)
(* RFC 9839 Unicode subset validation (Rust port), src/src/lib.rs.         *)
(*                                                                         *)
(* The library is a set of pure predicates over two constant range tables. *)
(* The state of the model is the two tables (the statics XML_CHARS and     *)
(* UNICODE_ASSIGNABLES) and the last call made on the public surface: the  *)
(* function called, its argument and the boolean it returned.  A second   *)
(* specification, SpecOrder, hands reordered tables (`subset`) to the      *)
(* membership test; a third, SpecScan, runs the string validators one      *)
(* character at a time (`scan`).                                           *)
(*                                                                         *)
(* Representation of the Rust types:                                       *)
(*   u32     two 16-bit halves [w1, w0], value w1 * 2^16 + w0              *)
(*   char    its scalar value, a number in 0..0xD7FF or 0xE000..0x10FFFF   *)
(*   &[u8]   a sequence of numbers in 0..255                               *)
(*   &str    the sequence of its bytes (always well-formed UTF-8)          *)
(***************************************************************************)
EXTENDS Integers, Sequences, FiniteSets, TLC

VARIABLES xml_chars, unicode_assignables, fn, arg, ret, subset, swaps, scan

vars == <<xml_chars, unicode_assignables, fn, arg, ret, subset, swaps, scan>>

(***************************************************************************)
(* Bounds of the model.                                                    *)
(***************************************************************************)
\* Code points within Delta of every boundary of interest are tried.
Delta == 2
\* Longest string, in characters.
MaxLen == 3
\* Longest byte buffer, in chunks (a character's encoding or a malformed piece).
MaxChunks == 3
\* Most exchanges of neighbouring ranges applied to UNICODE_ASSIGNABLES when
\* the membership test is tried on reordered tables.
MaxSwaps == 1

(***************************************************************************)
(* Numeric types.  A u32 is kept as its two 16-bit halves, w1 the upper    *)
(* one, so that every value up to 0xFFFFFFFF is representable and compared *)
(* as an unsigned number.                                                  *)
(***************************************************************************)
\* The u32 whose value is the natural number n, n < 2^31.
u32(n) == [w1 |-> n \div 65536, w0 |-> n % 65536]

\* u32's `<=` and `>=`.
u32_le(a, b) == a.w1 < b.w1 \/ (a.w1 = b.w1 /\ a.w0 <= b.w0)

u32_ge(a, b) == u32_le(b, a)

\* `ch as u32`: the scalar value of a char, widened to 32 bits.
as_u32(ch) == u32(ch)

(***************************************************************************)
(* RunePair and the range tables.                                          *)
(***************************************************************************)
RunePair_new(lo, hi) == [lo |-> u32(lo), hi |-> u32(hi)]

\* RunePair::contains with the upper bound excluded.
RunePair_contains_hi_excluded(self, ch) ==
    LET code == as_u32(ch)
    IN  u32_ge(code, self.lo) /\ u32_le(code, self.hi) /\ code # self.hi

RunePair_contains(self, ch) ==
    LET code == as_u32(ch)
    IN  u32_ge(code, self.lo) /\ u32_le(code, self.hi)

\* XML_CHARS with the tab left out.
XML_CHARS_without_tab ==
    << RunePair_new(\H20, \HD7FF),
       RunePair_new(\HA, \HA),
       RunePair_new(\HE000, \HFFFD),
       RunePair_new(\HD, \HD),
       RunePair_new(\H10000, \H10FFFF) >>

\* XML_CHARS with the first range widened to take in the three controls.
XML_CHARS_from_tab ==
    << RunePair_new(\H9, \HD7FF),
       RunePair_new(\HA, \HA),
       RunePair_new(\HE000, \HFFFD),
       RunePair_new(\H9, \H9),
       RunePair_new(\HD, \HD),
       RunePair_new(\H10000, \H10FFFF) >>

\* XML_CHARS with the second BMP range run to the end of the plane.
XML_CHARS_to_end_of_plane ==
    << RunePair_new(\H20, \HD7FF),
       RunePair_new(\HA, \HA),
       RunePair_new(\HE000, \HFFFF),
       RunePair_new(\H9, \H9),
       RunePair_new(\HD, \HD),
       RunePair_new(\H10000, \H10FFFF) >>

XML_CHARS ==
    << RunePair_new(\H20, \HD7FF),
       RunePair_new(\HA, \HA),
       RunePair_new(\HE000, \HFFFD),
       RunePair_new(\H9, \H9),
       RunePair_new(\HD, \HD),
       RunePair_new(\H10000, \H10FFFF) >>

UNICODE_ASSIGNABLES ==
    << RunePair_new(\H20, \H7E),
       RunePair_new(\HA, \HA),
       RunePair_new(\HA0, \HD7FF),
       RunePair_new(\HE000, \HFDCF),
       RunePair_new(\HFDF0, \HFFFD),
       RunePair_new(\H9, \H9),
       RunePair_new(\HD, \HD),
       RunePair_new(\H10000, \H1FFFD),
       RunePair_new(\H20000, \H2FFFD),
       RunePair_new(\H30000, \H3FFFD),
       RunePair_new(\H40000, \H4FFFD),
       RunePair_new(\H50000, \H5FFFD),
       RunePair_new(\H60000, \H6FFFD),
       RunePair_new(\H70000, \H7FFFD),
       RunePair_new(\H80000, \H8FFFD),
       RunePair_new(\H90000, \H9FFFD),
       RunePair_new(\HA0000, \HAFFFD),
       RunePair_new(\HB0000, \HBFFFD),
       RunePair_new(\HC0000, \HCFFFD),
       RunePair_new(\HD0000, \HDFFFD),
       RunePair_new(\HE0000, \HEFFFD),
       RunePair_new(\HF0000, \HFFFFD),
       RunePair_new(\H100000, \H10FFFD) >>

(***************************************************************************)
(* Membership test: Iterator::any over the table, first match wins.        *)
(***************************************************************************)
RECURSIVE any_contains(_, _, _)
any_contains(table, i, ch) ==
    IF i > Len(table) THEN FALSE
    ELSE IF RunePair_contains(table[i], ch) THEN TRUE
    ELSE any_contains(table, i + 1, ch)

subset_contains(table, ch) == any_contains(table, 1, ch)

\* The scan for a table sorted by lo: it gives up at the first range that
\* starts above the code point.
RECURSIVE any_contains_u32_sorted(_, _, _)
any_contains_u32_sorted(table, i, code) ==
    IF i > Len(table) THEN FALSE
    ELSE IF ~u32_ge(code, table[i].lo) THEN FALSE
    ELSE IF u32_le(code, table[i].hi) THEN TRUE
    ELSE any_contains_u32_sorted(table, i + 1, code)

RECURSIVE any_contains_u32(_, _, _)
any_contains_u32(table, i, code) ==
    IF i > Len(table) THEN FALSE
    ELSE IF u32_ge(code, table[i].lo) /\ u32_le(code, table[i].hi) THEN TRUE
    ELSE any_contains_u32(table, i + 1, code)

subset_contains_u32(table, code) == any_contains_u32(table, 1, code)

(***************************************************************************)
(* Character validators.                                                   *)
(***************************************************************************)
is_char_xml_char(ch) == subset_contains(xml_chars, ch)

is_char_unicode_assignable(ch) == subset_contains(unicode_assignables, ch)

(***************************************************************************)
(* Rune (u32) validators.                                                  *)
(***************************************************************************)
\* char::from_u32: None for a surrogate and for a value above char::MAX.
char_from_u32(r) ==
    IF \/ ~u32_le(r, u32(\H10FFFF))
       \/ u32_ge(r, u32(\HD800)) /\ u32_le(r, u32(\HDFFF))
    THEN [is_some |-> FALSE, ch |-> 0]
    ELSE [is_some |-> TRUE, ch |-> r.w1 * 65536 + r.w0]

\* is_rune_unicode_scalar as a bare upper-bound test, surrogates let through.
is_rune_unicode_scalar_max_only(r) == u32_le(r, u32(\H10FFFF))

is_rune_unicode_scalar(r) == char_from_u32(r).is_some

is_rune_xml_char(r) == subset_contains_u32(xml_chars, r)

\* is_rune_unicode_assignable scanning the other table.
is_rune_unicode_assignable_xml_table(r) == subset_contains_u32(xml_chars, r)

is_rune_unicode_assignable(r) == subset_contains_u32(unicode_assignables, r)

(***************************************************************************)
(* UTF-8: char::encode_utf8, str::from_utf8 and str::chars, the standard   *)
(* library conversions the validators and their tests call.                *)
(***************************************************************************)
\* char::encode_utf8: the shortest form, one to four bytes.
encode_utf8(ch) ==
    LET code == ch
    IN  IF code < \H80 THEN << code >>
        ELSE IF code < \H800 THEN
            << \HC0 + ((code \div 64) % 32), \H80 + (code % 64) >>
        ELSE IF code < \H10000 THEN
            << \HE0 + ((code \div 4096) % 16),
               \H80 + ((code \div 64) % 64),
               \H80 + (code % 64) >>
        ELSE
            << \HF0 + ((code \div 262144) % 8),
               \H80 + ((code \div 4096) % 64),
               \H80 + ((code \div 64) % 64),
               \H80 + (code % 64) >>

\* String::push for every character in turn; the result's bytes (as_bytes).
RECURSIVE String_from_chars(_)
String_from_chars(cs) ==
    IF cs = << >> THEN << >>
    ELSE encode_utf8(Head(cs)) \o String_from_chars(Tail(cs))

\* The width a leading byte announces; 0 for a byte that cannot lead.
utf8_char_width(b) ==
    IF b < \H80 THEN 1
    ELSE IF b < \HC2 THEN 0
    ELSE IF b < \HE0 THEN 2
    ELSE IF b < \HF0 THEN 3
    ELSE IF b < \HF5 THEN 4
    ELSE 0

utf8_is_cont_byte(b) == b >= \H80 /\ b <= \HBF

\* The validation loop of str::from_utf8, from the byte at `index`: TRUE when
\* the rest of the buffer is well formed.
RECURSIVE run_utf8_validation(_, _)
run_utf8_validation(v, index) ==
    IF index > Len(v) THEN TRUE
    ELSE
        LET first == v[index]
            w     == utf8_char_width(first)
            has(k) == index + k <= Len(v)
            nxt(k) == v[index + k]
        IN  IF first < \H80 THEN run_utf8_validation(v, index + 1)
            ELSE IF w = 2 THEN
                /\ has(1) /\ utf8_is_cont_byte(nxt(1))
                /\ run_utf8_validation(v, index + 2)
            ELSE IF w = 3 THEN
                /\ has(1)
                /\ \/ first = \HE0 /\ nxt(1) >= \HA0 /\ nxt(1) <= \HBF
                   \/ first >= \HE1 /\ first <= \HEC /\ nxt(1) >= \H80 /\ nxt(1) <= \HBF
                   \/ first = \HED /\ nxt(1) >= \H80 /\ nxt(1) <= \H9F
                   \/ first >= \HEE /\ first <= \HEF /\ nxt(1) >= \H80 /\ nxt(1) <= \HBF
                /\ has(2) /\ utf8_is_cont_byte(nxt(2))
                /\ run_utf8_validation(v, index + 3)
            ELSE IF w = 4 THEN
                /\ has(1)
                /\ \/ first = \HF0 /\ nxt(1) >= \H90 /\ nxt(1) <= \HBF
                   \/ first >= \HF1 /\ first <= \HF3 /\ nxt(1) >= \H80 /\ nxt(1) <= \HBF
                   \/ first = \HF4 /\ nxt(1) >= \H80 /\ nxt(1) <= \H8F
                /\ has(2) /\ utf8_is_cont_byte(nxt(2))
                /\ has(3) /\ utf8_is_cont_byte(nxt(3))
                /\ run_utf8_validation(v, index + 4)
            ELSE FALSE

\* std::str::from_utf8: Ok(the same bytes, as a str) or Err.
from_utf8(bytes) ==
    [is_ok |-> run_utf8_validation(bytes, 1), s |-> bytes]

\* The character that starts at byte `i` of a str and the bytes it takes
\* (Chars::next; the str is well formed, so no byte is checked again).
next_code_point(s, i) ==
    LET x == s[i]
        y == s[i + 1] % 64
        z == s[i + 2] % 64
        w == s[i + 3] % 64
    IN  IF x < \H80 THEN [ch |-> x, width |-> 1]
        ELSE IF x < \HE0 THEN [ch |-> (x % 32) * 64 + y, width |-> 2]
        ELSE IF x < \HF0 THEN [ch |-> (x % 16) * 4096 + y * 64 + z, width |-> 3]
        ELSE [ch |-> (x % 8) * 262144 + y * 4096 + z * 64 + w, width |-> 4]

\* str::chars, collected.
RECURSIVE chars_from(_, _)
chars_from(s, i) ==
    IF i > Len(s) THEN << >>
    ELSE LET n == next_code_point(s, i)
         IN  << n.ch >> \o chars_from(s, i + n.width)

chars(s) == chars_from(s, 1)

(***************************************************************************)
(* String validators: s.chars().all(..), which stops at the first          *)
(* character the predicate rejects.                                        *)
(***************************************************************************)
is_string_unicode_scalars(s) == TRUE

RECURSIVE all_is_char_xml_char(_, _)
all_is_char_xml_char(s, i) ==
    IF i > Len(s) THEN TRUE
    ELSE LET n == next_code_point(s, i)
         IN  IF ~is_char_xml_char(n.ch) THEN FALSE
             ELSE all_is_char_xml_char(s, i + n.width)

\* is_string_xml_chars with Iterator::any in place of Iterator::all.
RECURSIVE any_is_char_xml_char(_, _)
any_is_char_xml_char(s, i) ==
    IF i > Len(s) THEN FALSE
    ELSE LET n == next_code_point(s, i)
         IN  IF is_char_xml_char(n.ch) THEN TRUE
             ELSE any_is_char_xml_char(s, i + n.width)

is_string_xml_chars_any(s) == any_is_char_xml_char(s, 1)

is_string_xml_chars(s) == all_is_char_xml_char(s, 1)

RECURSIVE all_is_char_unicode_assignable(_, _)
all_is_char_unicode_assignable(s, i) ==
    IF i > Len(s) THEN TRUE
    ELSE LET n == next_code_point(s, i)
         IN  IF ~is_char_unicode_assignable(n.ch) THEN FALSE
             ELSE all_is_char_unicode_assignable(s, i + n.width)

is_string_unicode_assignables(s) == all_is_char_unicode_assignable(s, 1)

(***************************************************************************)
(* UTF-8 byte slice validators.                                            *)
(***************************************************************************)
\* is_utf8_unicode_scalars answering as is_string_unicode_scalars does,
\* without decoding.
is_utf8_unicode_scalars_no_decode(bytes) == is_string_unicode_scalars(bytes)

is_utf8_unicode_scalars(bytes) == from_utf8(bytes).is_ok

is_utf8_xml_chars(bytes) ==
    LET r == from_utf8(bytes)
    IN  IF r.is_ok THEN is_string_xml_chars(r.s) ELSE FALSE

\* is_utf8_unicode_assignables testing every byte as if it were a character.
is_utf8_unicode_assignables_bytewise(bytes) ==
    /\ from_utf8(bytes).is_ok
    /\ \A i \in 1 .. Len(bytes) : is_char_unicode_assignable(bytes[i])

\* is_utf8_unicode_assignables handing the text to the XML validator.
is_utf8_unicode_assignables_xml_text(bytes) ==
    LET r == from_utf8(bytes)
    IN  IF r.is_ok THEN is_string_xml_chars(r.s) ELSE FALSE

is_utf8_unicode_assignables(bytes) ==
    LET r == from_utf8(bytes)
    IN  IF r.is_ok THEN is_string_unicode_assignables(r.s) ELSE FALSE

(***************************************************************************)
(* Inputs tried.                                                           *)
(***************************************************************************)
\* The first and last code point of every range and gap, of every UTF-8
\* length and of the code space.
Boundaries ==
    { \H0, \H9, \HA, \HD, \H20, \H7E, \H7F, \H80, \H9F, \HA0, \H7FF, \H800,
      \HD7FF, \HD800, \HDFFF, \HE000, \HFDCF, \HFDD0, \HFDEF, \HFDF0,
      \HFFFD, \HFFFF, \H1F980 }
    \cup { p * \H10000 : p \in 1 .. 17 }
    \cup { p * \H10000 + \HFFFD : p \in 1 .. 16 }

LowCodePoints ==
    UNION { { n \in (b - Delta) .. (b + Delta) : n >= 0 } : b \in Boundaries }

\* u32 values of 2^31 and more, and values whose lower half alone is valid.
HighCodePoints ==
    UNION { { [w1 |-> \H7FFF, w0 |-> \HFFFF - d],
              [w1 |-> \H8000, w0 |-> d],
              [w1 |-> \H8000, w0 |-> \H41 + d],
              [w1 |-> \HFFFF, w0 |-> \H41 + d],
              [w1 |-> \HFFFF, w0 |-> \HFFFF - d] } : d \in 0 .. Delta }

CodePoints == { u32(n) : n \in LowCodePoints } \cup HighCodePoints

\* char: the Unicode scalar values.
IsChar(n) == n \in \H0 .. \HD7FF \/ n \in \HE000 .. \H10FFFF

CharInputs == { n \in LowCodePoints : IsChar(n) }

\* Characters strings are made of: of every UTF-8 length; accepted by both
\* subsets, by XML only, and by neither.
StrChars ==
    { \H61, \H0, \H7F, \HE9, \HFDD0, \HFFFD, \HFFFE, \H10000, \H1FFFE }

CharSeqs == UNION { [1 .. n -> StrChars] : n \in 0 .. MaxLen }

StrInputs == { String_from_chars(cs) : cs \in CharSeqs }

\* Pieces byte buffers are made of: encodings of characters ...
GoodChunks == { encode_utf8(c) : c \in { \H61, \H7A, \H80, \HFFFE, \H1F980 } }

\* ... and malformed pieces: a lone continuation byte, truncated two-, three-
\* and four-byte sequences, an overlong form, surrogates, a value above
\* 0x10FFFF and a byte that never occurs.
BadChunks ==
    { << \H80 >>, << \HC3 >>, << \HE2, \H82 >>, << \HF0, \H9F, \HA6 >>,
      << \HC1, \H81 >>,
      << \HED, \HA0, \H80 >>, << \HED, \HBA, \HAD >>,
      << \HF4, \H90, \H80, \H80 >>, << \HFF >> }

Chunks == GoodChunks \cup BadChunks

RECURSIVE Concat(_)
Concat(ss) == IF ss = << >> THEN << >> ELSE Head(ss) \o Concat(Tail(ss))

ByteInputs ==
    { Concat(cks) : cks \in UNION { [1 .. n -> Chunks] : n \in 0 .. MaxChunks } }

\* No scan of a string is under way.
NoScan == [running |-> FALSE, pos |-> 0, examined |-> << >>]

(***************************************************************************)
(* The public surface: one action per function.                            *)
(***************************************************************************)
Init ==
    /\ xml_chars = XML_CHARS
    /\ unicode_assignables = UNICODE_ASSIGNABLES
    /\ fn = "none"
    /\ arg = << >>
    /\ ret = FALSE
    /\ subset = << >>
    /\ swaps = 0
    /\ scan = NoScan

\* A caller makes one call at a time: `fn` names the call whose result it
\* holds, "none" when it holds no result.
Idle == fn = "none"

Return(f, a, r) ==
    /\ fn' = f
    /\ arg' = a
    /\ ret' = r
    /\ UNCHANGED <<xml_chars, unicode_assignables, subset, swaps, scan>>

Call_is_char_xml_char ==
    /\ Idle
    /\ \E ch \in CharInputs : Return("is_char_xml_char", ch, is_char_xml_char(ch))

Call_is_char_unicode_assignable ==
    /\ Idle
    /\ \E ch \in CharInputs :
       Return("is_char_unicode_assignable", ch, is_char_unicode_assignable(ch))

Call_is_rune_unicode_scalar ==
    /\ Idle
    /\ \E r \in CodePoints :
       Return("is_rune_unicode_scalar", r, is_rune_unicode_scalar(r))

Call_is_rune_xml_char ==
    /\ Idle
    /\ \E r \in CodePoints : Return("is_rune_xml_char", r, is_rune_xml_char(r))

Call_is_rune_unicode_assignable ==
    /\ Idle
    /\ \E r \in CodePoints :
       Return("is_rune_unicode_assignable", r, is_rune_unicode_assignable(r))

Call_is_string_unicode_scalars ==
    /\ Idle
    /\ \E s \in StrInputs :
       Return("is_string_unicode_scalars", s, is_string_unicode_scalars(s))

Call_is_string_xml_chars ==
    /\ Idle
    /\ \E s \in StrInputs : Return("is_string_xml_chars", s, is_string_xml_chars(s))

Call_is_string_unicode_assignables ==
    /\ Idle
    /\ \E s \in StrInputs :
       Return("is_string_unicode_assignables", s, is_string_unicode_assignables(s))

Call_is_utf8_unicode_scalars ==
    /\ Idle
    /\ \E bytes \in ByteInputs :
       Return("is_utf8_unicode_scalars", bytes, is_utf8_unicode_scalars(bytes))

Call_is_utf8_xml_chars ==
    /\ Idle
    /\ \E bytes \in ByteInputs :
       Return("is_utf8_xml_chars", bytes, is_utf8_xml_chars(bytes))

Call_is_utf8_unicode_assignables ==
    /\ Idle
    /\ \E bytes \in ByteInputs :
       Return("is_utf8_unicode_assignables", bytes, is_utf8_unicode_assignables(bytes))

\* The caller is done with the result.
Done ==
    /\ fn # "none"
    /\ fn' = "none"
    /\ arg' = << >>
    /\ ret' = FALSE
    /\ UNCHANGED <<xml_chars, unicode_assignables, subset, swaps, scan>>

Next ==
    \/ Call_is_char_xml_char
    \/ Call_is_char_unicode_assignable
    \/ Call_is_rune_unicode_scalar
    \/ Call_is_rune_xml_char
    \/ Call_is_rune_unicode_assignable
    \/ Call_is_string_unicode_scalars
    \/ Call_is_string_xml_chars
    \/ Call_is_string_unicode_assignables
    \/ Call_is_utf8_unicode_scalars
    \/ Call_is_utf8_xml_chars
    \/ Call_is_utf8_unicode_assignables
    \/ Done

Spec == Init /\ [][Next]_vars

(***************************************************************************)
(* The membership test on reordered tables.  `subset` is the table handed  *)
(* to subset_contains / subset_contains_u32: XML_CHARS in any order, or    *)
(* UNICODE_ASSIGNABLES, reversed or not, with up to MaxSwaps neighbouring  *)
(* ranges exchanged.                                                       *)
(***************************************************************************)
InitOrder ==
    /\ xml_chars = XML_CHARS
    /\ unicode_assignables = UNICODE_ASSIGNABLES
    /\ fn = "none"
    /\ arg = << >>
    /\ ret = FALSE
    /\ subset \in { XML_CHARS, UNICODE_ASSIGNABLES }
    /\ swaps = 0
    /\ scan = NoScan

\* XML_CHARS is short enough for every order of it to be tried; exchanges
\* are counted, and limited, on the longer table only.
Counted(table) == Len(table) > Len(XML_CHARS)

SwapAdjacent ==
    /\ Idle
    /\ Counted(subset) => swaps < MaxSwaps
    /\ \E i \in 1 .. (Len(subset) - 1) :
           subset' = [subset EXCEPT ![i] = subset[i + 1], ![i + 1] = subset[i]]
    /\ swaps' = IF Counted(subset) THEN swaps + 1 ELSE swaps
    /\ UNCHANGED <<xml_chars, unicode_assignables, fn, arg, ret, scan>>

Reverse ==
    /\ Idle
    /\ subset' = [i \in 1 .. Len(subset) |-> subset[Len(subset) + 1 - i]]
    /\ UNCHANGED <<xml_chars, unicode_assignables, fn, arg, ret, swaps, scan>>

Call_subset_contains ==
    /\ Idle
    /\ \E ch \in CharInputs :
           /\ fn' = "subset_contains"
           /\ arg' = ch
           /\ ret' = subset_contains(subset, ch)
    /\ UNCHANGED <<xml_chars, unicode_assignables, subset, swaps, scan>>

Call_subset_contains_u32 ==
    /\ Idle
    /\ \E code \in CodePoints :
           /\ fn' = "subset_contains_u32"
           /\ arg' = code
           /\ ret' = subset_contains_u32(subset, code)
    /\ UNCHANGED <<xml_chars, unicode_assignables, subset, swaps, scan>>

NextOrder ==
    \/ SwapAdjacent
    \/ Reverse
    \/ Call_subset_contains
    \/ Call_subset_contains_u32
    \/ Done

SpecOrder == InitOrder /\ [][NextOrder]_vars

(***************************************************************************)
(* The string validators, one character at a time: s.chars().all(f) asks   *)
(* the iterator for the next character, hands it to f, and returns false   *)
(* as soon as f does; it returns true when the iterator is exhausted.      *)
(* scan.pos is the byte the iterator stands at, scan.examined the          *)
(* characters handed to f so far.                                          *)
(***************************************************************************)
\* Iterator::all that never returns before the iterator is exhausted.
all_returns_early_never(passed) == FALSE

\* Iterator::all: the loop returns (false) once the predicate has failed.
all_returns_early(passed) == ~passed

Begin_is_string_xml_chars ==
    /\ Idle
    /\ \E s \in StrInputs :
           /\ fn' = "is_string_xml_chars"
           /\ arg' = s
    /\ ret' = FALSE
    /\ scan' = [running |-> TRUE, pos |-> 1, examined |-> << >>]
    /\ UNCHANGED <<xml_chars, unicode_assignables, subset, swaps>>

Begin_is_string_unicode_assignables ==
    /\ Idle
    /\ \E s \in StrInputs :
           /\ fn' = "is_string_unicode_assignables"
           /\ arg' = s
    /\ ret' = FALSE
    /\ scan' = [running |-> TRUE, pos |-> 1, examined |-> << >>]
    /\ UNCHANGED <<xml_chars, unicode_assignables, subset, swaps>>

\* Chars::next gives a character; the predicate is asked about it.
ScanExamine ==
    /\ scan.running
    /\ scan.pos <= Len(arg)
    /\ LET n      == next_code_point(arg, scan.pos)
           passed == IF fn = "is_string_xml_chars"
                     THEN is_char_xml_char(n.ch)
                     ELSE is_char_unicode_assignable(n.ch)
       IN  IF all_returns_early(passed)
           THEN /\ scan' = [scan EXCEPT !.running = FALSE,
                                        !.examined = Append(@, n.ch)]
                /\ ret' = FALSE
           ELSE /\ scan' = [scan EXCEPT !.pos = @ + n.width,
                                        !.examined = Append(@, n.ch)]
                /\ ret' = ret
    /\ UNCHANGED <<xml_chars, unicode_assignables, fn, arg, subset, swaps>>

\* Chars::next gives None: every character passed.
ScanExhausted ==
    /\ scan.running
    /\ scan.pos > Len(arg)
    /\ scan' = [scan EXCEPT !.running = FALSE]
    /\ ret' = TRUE
    /\ UNCHANGED <<xml_chars, unicode_assignables, fn, arg, subset, swaps>>

\* The caller is done with the result of a finished scan.
ScanDone ==
    /\ fn # "none"
    /\ ~scan.running
    /\ fn' = "none"
    /\ arg' = << >>
    /\ ret' = FALSE
    /\ scan' = NoScan
    /\ UNCHANGED <<xml_chars, unicode_assignables, subset, swaps>>

NextScan ==
    \/ Begin_is_string_xml_chars
    \/ Begin_is_string_unicode_assignables
    \/ ScanExamine
    \/ ScanExhausted
    \/ ScanDone

SpecScan == Init /\ [][NextScan]_vars

(***************************************************************************)
(* The gap tables of the tests (mod tests), the complements of the tables. *)
(***************************************************************************)
INVERSE_XML ==
    << RunePair_new(\H0, \H8),
       RunePair_new(\HB, \HC),
       RunePair_new(\HE, \H1F),
       RunePair_new(\HD800, \HDFFF),
       RunePair_new(\HFFFE, \HFFFF) >>

INVERSE_ASSIGNABLES ==
    << RunePair_new(\H0, \H8),
       RunePair_new(\HB, \HC),
       RunePair_new(\HE, \H1F),
       RunePair_new(\H7F, \H9F),
       RunePair_new(\HD800, \HDFFF),
       RunePair_new(\HFDD0, \HFDEF),
       RunePair_new(\HFFFE, \HFFFF),
       RunePair_new(\H1FFFE, \H1FFFF),
       RunePair_new(\H2FFFE, \H2FFFF),
       RunePair_new(\H3FFFE, \H3FFFF),
       RunePair_new(\H4FFFE, \H4FFFF),
       RunePair_new(\H5FFFE, \H5FFFF),
       RunePair_new(\H6FFFE, \H6FFFF),
       RunePair_new(\H7FFFE, \H7FFFF),
       RunePair_new(\H8FFFE, \H8FFFF),
       RunePair_new(\H9FFFE, \H9FFFF),
       RunePair_new(\HAFFFE, \HAFFFF),
       RunePair_new(\HBFFFE, \HBFFFF),
       RunePair_new(\HCFFFE, \HCFFFF),
       RunePair_new(\HDFFFE, \HDFFFF),
       RunePair_new(\HEFFFE, \HEFFFF),
       RunePair_new(\HFFFFE, \HFFFFF),
       RunePair_new(\H10FFFE, \H10FFFF) >>

(***************************************************************************)
(* Properties.                                                             *)
(***************************************************************************)
\* A u32 is a code point when it is at most 0x10FFFF; then it has a value.
InCodeSpace(r) == r.w1 <= \H10

Value(r) == r.w1 * 65536 + r.w0

\* The ranges partition the code space [0, 0x10FFFF]: they lie in it, no two
\* of them meet, and their sizes add up to its size.
RECURSIVE SizeSum(_)
SizeSum(ranges) ==
    IF ranges = << >> THEN 0
    ELSE Value(Head(ranges).hi) - Value(Head(ranges).lo) + 1 + SizeSum(Tail(ranges))

PairwiseDisjoint(ranges) ==
    \A i, j \in 1 .. Len(ranges) :
        i < j => \/ ~u32_le(ranges[j].lo, ranges[i].hi)
                 \/ ~u32_le(ranges[i].lo, ranges[j].hi)

WellFormedRanges(ranges) ==
    \A i \in 1 .. Len(ranges) :
        /\ u32_le(ranges[i].lo, ranges[i].hi)
        /\ u32_le(ranges[i].hi, u32(\H10FFFF))

PartitionOfCodeSpace(ranges) ==
    /\ WellFormedRanges(ranges)
    /\ PairwiseDisjoint(ranges)
    /\ SizeSum(ranges) = \H10FFFF + 1

\* The XML 1.0 character set and its complement in the code space, as listed.
XmlCharValue(n) ==
    \/ n \in { \H9, \HA, \HD }
    \/ n \in \H20 .. \HD7FF
    \/ n \in \HE000 .. \HFFFD
    \/ n \in \H10000 .. \H10FFFF

XmlGapValue(n) ==
    \/ n \in \H0 .. \H8
    \/ n \in \HB .. \HC
    \/ n \in \HE .. \H1F
    \/ n \in \HD800 .. \HDFFF
    \/ n \in \HFFFE .. \HFFFF

\* C1: is_rune_xml_char(c) is true exactly for c = 0x9, 0xA, 0xD and c in
\* [0x20,0xD7FF], [0xE000,0xFFFD], [0x10000,0x10FFFF]; it is false on the gaps
\* 0x0-0x8, 0xB-0xC, 0xE-0x1F, 0xD800-0xDFFF, 0xFFFE-0xFFFF and above 0x10FFFF
\* (0xFFFFFFFF included); the table and the gap table partition [0,0x10FFFF].
C1_XmlCharRune ==
    fn = "is_rune_xml_char" =>
        /\ ret = (InCodeSpace(arg) /\ XmlCharValue(Value(arg)))
        /\ (~InCodeSpace(arg) \/ XmlGapValue(Value(arg))) => (ret = FALSE)
        /\ PartitionOfCodeSpace(xml_chars \o INVERSE_XML)

\* is_rune_xml_char(0xFFFFFFFF) has returned false.
C1_Witness ==
    /\ fn = "is_rune_xml_char"
    /\ arg = [w1 |-> \HFFFF, w0 |-> \HFFFF]
    /\ ret = FALSE

\* The Unicode Assignable set and its complement in the code space, as listed.
AssignableValue(n) ==
    \/ n \in { \H9, \HA, \HD }
    \/ n \in \H20 .. \H7E
    \/ n \in \HA0 .. \HD7FF
    \/ n \in \HE000 .. \HFDCF
    \/ n \in \HFDF0 .. \HFFFD
    \/ \E p \in 1 .. 16 : n \in (p * \H10000) .. (p * \H10000 + \HFFFD)

AssignableGapValue(n) ==
    \/ n \in \H0 .. \H8
    \/ n \in \HB .. \HC
    \/ n \in \HE .. \H1F
    \/ n \in \H7F .. \H9F
    \/ n \in \HD800 .. \HDFFF
    \/ n \in \HFDD0 .. \HFDEF
    \/ \E p \in 0 .. 16 : n \in { p * \H10000 + \HFFFE, p * \H10000 + \HFFFF }

\* C2: is_rune_unicode_assignable(c) is true exactly for c = 0x9, 0xA, 0xD and
\* c in [0x20,0x7E], [0xA0,0xD7FF], [0xE000,0xFDCF], [0xFDF0,0xFFFD] or
\* [p*0x10000, p*0x10000+0xFFFD] for a plane p in 1..16; it is false on
\* 0x0-0x8, 0xB-0xC, 0xE-0x1F, 0x7F-0x9F, 0xD800-0xDFFF, 0xFDD0-0xFDEF, on the
\* last two code points of every plane 0..16 and above 0x10FFFF.
C2_AssignableRune ==
    fn = "is_rune_unicode_assignable" =>
        /\ ret = (InCodeSpace(arg) /\ AssignableValue(Value(arg)))
        /\ (~InCodeSpace(arg) \/ AssignableGapValue(Value(arg))) => (ret = FALSE)

\* is_rune_unicode_assignable(0x10FFFE), the last plane's noncharacter, has
\* returned false.
C2_Witness ==
    /\ fn = "is_rune_unicode_assignable"
    /\ arg = u32(\H10FFFE)
    /\ ret = FALSE

\* C3: is_rune_unicode_scalar(c) is true exactly when c <= 0x10FFFF and c is
\* outside 0xD800..0xDFFF; above 0x10FFFF (0xFFFFFFFF included) all three
\* code-point validators return false.
C3_ScalarRune ==
    /\ fn = "is_rune_unicode_scalar" =>
           ret = (InCodeSpace(arg) /\ Value(arg) \notin \HD800 .. \HDFFF)
    /\ ( /\ fn \in { "is_rune_unicode_scalar", "is_rune_xml_char",
                     "is_rune_unicode_assignable" }
         /\ ~InCodeSpace(arg) ) => (ret = FALSE)

\* is_rune_unicode_scalar(0xDFFF), the last surrogate, has returned false.
C3_Witness ==
    /\ fn = "is_rune_unicode_scalar"
    /\ arg = u32(\HDFFF)
    /\ ret = FALSE

\* Strict UTF-8, by definition: a byte sequence is strictly valid when it is
\* the concatenation of the encodings of Unicode scalar values.  UnitValue is
\* the number a unit of one to four bytes spells; the unit is an encoding when
\* that number is a scalar value whose encoding is the unit itself.
UnitValue(u) ==
    CASE Len(u) = 1 -> u[1]
      [] Len(u) = 2 -> (u[1] - \HC0) * 64 + (u[2] - \H80)
      [] Len(u) = 3 -> (u[1] - \HE0) * 4096 + (u[2] - \H80) * 64 + (u[3] - \H80)
      [] Len(u) = 4 -> (u[1] - \HF0) * 262144 + (u[2] - \H80) * 4096
                           + (u[3] - \H80) * 64 + (u[4] - \H80)

IsEncodedChar(u) == IsChar(UnitValue(u)) /\ encode_utf8(UnitValue(u)) = u

\* [ok |-> the bytes from i on are strictly valid, cs |-> the text they spell].
RECURSIVE DecodeStrict(_, _)
DecodeStrict(b, i) ==
    IF i > Len(b) THEN [ok |-> TRUE, cs |-> << >>]
    ELSE
        LET ns == { n \in 1 .. 4 :
                      i + n - 1 <= Len(b) /\ IsEncodedChar(SubSeq(b, i, i + n - 1)) }
        IN  IF ns = {} THEN [ok |-> FALSE, cs |-> << >>]
            ELSE LET n    == CHOOSE k \in ns : TRUE
                     rest == DecodeStrict(b, i + n)
                 IN  [ok |-> rest.ok,
                      cs |-> << UnitValue(SubSeq(b, i, i + n - 1)) >> \o rest.cs]

StrictUtf8(b) == DecodeStrict(b, 1).ok

Utf8Validators ==
    { "is_utf8_unicode_scalars", "is_utf8_xml_chars", "is_utf8_unicode_assignables" }

\* C4: on a byte sequence that is not strictly valid UTF-8 (lone continuation
\* byte, truncated sequence, overlong form, encoded surrogate, value above
\* 0x10FFFF, invalid byte), alone or between valid characters, all three byte
\* validators return false (a bool: no error is raised).
C4_MalformedRejected ==
    (fn \in Utf8Validators /\ ~StrictUtf8(arg)) => (ret = FALSE)

\* is_utf8_xml_chars("a" ED BA AD "z"), an encoded surrogate between valid
\* characters, has returned false.
C4_Witness ==
    /\ fn = "is_utf8_xml_chars"
    /\ arg = << \H61, \HED, \HBA, \HAD, \H7A >>
    /\ ret = FALSE

\* C5: on strictly valid UTF-8 bytes b that spell the text s,
\* is_utf8_unicode_scalars is true, is_utf8_xml_chars(b) is
\* is_string_xml_chars(s) and is_utf8_unicode_assignables(b) is
\* is_string_unicode_assignables(s); the empty buffer is accepted by all three.
C5_ValidDelegates ==
    (fn \in Utf8Validators /\ StrictUtf8(arg)) =>
        LET s == String_from_chars(DecodeStrict(arg, 1).cs)
        IN  /\ fn = "is_utf8_unicode_scalars" => ret = TRUE
            /\ fn = "is_utf8_xml_chars" => ret = is_string_xml_chars(s)
            /\ fn = "is_utf8_unicode_assignables" =>
                   ret = is_string_unicode_assignables(s)
            /\ arg = << >> => ret = TRUE

\* is_utf8_unicode_assignables("a" U+FFFE), valid UTF-8 holding a
\* noncharacter, has returned false.
C5_Witness ==
    /\ fn = "is_utf8_unicode_assignables"
    /\ arg = << \H61, \HEF, \HBF, \HBE >>
    /\ StrictUtf8(arg)
    /\ ret = FALSE

\* The characters of a str.
CharsOf(s) == DecodeStrict(s, 1).cs

\* C6: is_string_xml_chars(s) is true exactly when every character of s
\* satisfies is_char_xml_char, and is_string_unicode_assignables(s) exactly
\* when every character satisfies is_char_unicode_assignable: one rejected
\* character anywhere rejects the string, and the empty string is accepted.
C6_StringIsAllChars ==
    /\ fn = "is_string_xml_chars" =>
           ret = (\A i \in 1 .. Len(CharsOf(arg)) : is_char_xml_char(CharsOf(arg)[i]))
    /\ fn = "is_string_unicode_assignables" =>
           ret = (\A i \in 1 .. Len(CharsOf(arg)) :
                      is_char_unicode_assignable(CharsOf(arg)[i]))
    /\ (fn \in { "is_string_xml_chars", "is_string_unicode_assignables" }
            /\ arg = << >>) => (ret = TRUE)

\* is_string_xml_chars("a" U+00E9 NUL), whose only rejected character is the
\* last, has returned false.
C6_Witness ==
    /\ fn = "is_string_xml_chars"
    /\ arg = String_from_chars(<< \H61, \HE9, \H0 >>)
    /\ CharsOf(arg) = << \H61, \HE9, \H0 >>
    /\ ret = FALSE

\* C7: for a code point c accepted by a subset's code-point validator, the
\* same subset's byte validator accepts the UTF-8 encoding of c: the byte
\* level gives the outcome of the direct check.
C7_RoundTrip ==
    LET c == char_from_u32(arg)
    IN  /\ (fn = "is_rune_xml_char" /\ ret) =>
               (c.is_some /\ is_utf8_xml_chars(encode_utf8(c.ch)) = ret)
        /\ (fn = "is_rune_unicode_assignable" /\ ret) =>
               (c.is_some /\ is_utf8_unicode_assignables(encode_utf8(c.ch)) = ret)
        /\ (fn = "is_rune_unicode_scalar" /\ ret) =>
               (c.is_some /\ is_utf8_unicode_scalars(encode_utf8(c.ch)) = ret)

\* is_rune_unicode_assignable(0x10FFFD) has returned true, and its encoding
\* F4 8F BF BD is what the byte validator is given.
C7_Witness ==
    /\ fn = "is_rune_unicode_assignable"
    /\ arg = u32(\H10FFFD)
    /\ ret = TRUE
    /\ encode_utf8(char_from_u32(arg).ch) = << \HF4, \H8F, \HBF, \HBD >>

\* C8: the character validators agree with the code-point validators:
\* is_char_xml_char(ch) = is_rune_xml_char(ch as u32) and
\* is_char_unicode_assignable(ch) = is_rune_unicode_assignable(ch as u32),
\* though they run two separate scans.
C8_CharAgreesWithRune ==
    /\ fn = "is_char_xml_char" => ret = is_rune_xml_char(as_u32(arg))
    /\ fn = "is_char_unicode_assignable" =>
           ret = is_rune_unicode_assignable(as_u32(arg))

\* is_char_unicode_assignable(U+FDD0) has returned false, as
\* is_rune_unicode_assignable(0xFDD0) does.
C8_Witness ==
    /\ fn = "is_char_unicode_assignable"
    /\ arg = \HFDD0
    /\ ret = FALSE
    /\ ~is_rune_unicode_assignable(u32(\HFDD0))

\* C9: in XML_CHARS and in UNICODE_ASSIGNABLES every range has
\* lo <= hi <= 0x10FFFF and no two ranges of one table share a code point; the
\* tables are, in every state, the tables as compiled: no call changes them.
C9_TableInvariant ==
    /\ WellFormedRanges(xml_chars)
    /\ PairwiseDisjoint(xml_chars)
    /\ WellFormedRanges(unicode_assignables)
    /\ PairwiseDisjoint(unicode_assignables)
    /\ xml_chars = XML_CHARS
    /\ unicode_assignables = UNICODE_ASSIGNABLES

\* A validator has scanned a table to its end (a rejected character) and
\* the tables are as compiled.
C9_Witness ==
    /\ fn = "is_utf8_unicode_assignables"
    /\ arg = << \H61, \HEF, \HBF, \HBE >>
    /\ ret = FALSE
    /\ xml_chars = XML_CHARS
    /\ unicode_assignables = UNICODE_ASSIGNABLES

\* The table `table` is a reordering of.
RangesOf(table) == { table[i] : i \in 1 .. Len(table) }

OriginalOrder(table) ==
    IF Len(table) = Len(XML_CHARS) THEN XML_CHARS ELSE UNICODE_ASSIGNABLES

\* C10: the order of the ranges does not affect any result: on a reordered
\* XML_CHARS or UNICODE_ASSIGNABLES the linear scan (subset_contains_u32,
\* subset_contains) returns what it returns on the table in its original order.
C10_OrderIrrelevant ==
    /\ fn = "subset_contains_u32" =>
           /\ RangesOf(subset) = RangesOf(OriginalOrder(subset))
           /\ Len(subset) = Len(OriginalOrder(subset))
           /\ ret = subset_contains_u32(OriginalOrder(subset), arg)
    /\ fn = "subset_contains" =>
           /\ RangesOf(subset) = RangesOf(OriginalOrder(subset))
           /\ Len(subset) = Len(OriginalOrder(subset))
           /\ ret = subset_contains(OriginalOrder(subset), arg)

\* subset_contains_u32 has found 0xA in a reordered XML_CHARS whose last
\* range is the newline and in which no range is where it was.
C10_Witness ==
    /\ fn = "subset_contains_u32"
    /\ RangesOf(subset) = RangesOf(XML_CHARS)
    /\ \A i \in 1 .. Len(subset) : subset[i] # XML_CHARS[i]
    /\ subset[Len(subset)] = RunePair_new(\HA, \HA)
    /\ arg = u32(\HA)
    /\ ret = TRUE

\* The character validator a string validator applies.
CharValidator(f, ch) ==
    IF f = "is_string_xml_chars" THEN is_char_xml_char(ch)
    ELSE is_char_unicode_assignable(ch)

\* The first i characters of a text.
Prefix(cs, i) == SubSeq(cs, 1, i)

\* C11: is_string_xml_chars and is_string_unicode_assignables examine the
\* characters of the input in order and stop at the first one the character
\* validator rejects: the characters examined are always a prefix of the
\* input, none but the last examined is a rejected one, a finished scan
\* returned false exactly when its last examined character is rejected and
\* otherwise examined the whole input, and a scan under way is never stuck:
\* it ends after at most one pass.
C11_ShortCircuit ==
    scan # NoScan =>
        LET cs == CharsOf(arg)
            k  == Len(scan.examined)
        IN  /\ k <= Len(cs)
            /\ scan.examined = Prefix(cs, k)
            /\ \A i \in 1 .. (k - 1) : CharValidator(fn, cs[i])
            /\ scan.running =>
                   /\ \A i \in 1 .. k : CharValidator(fn, cs[i])
                   /\ scan.pos = Len(String_from_chars(scan.examined)) + 1
                   /\ scan.pos <= Len(arg) + 1
            /\ (~scan.running /\ ret = FALSE) =>
                   (k >= 1 /\ ~CharValidator(fn, cs[k]))
            /\ (~scan.running /\ ret = TRUE) =>
                   (k = Len(cs) /\ \A i \in 1 .. k : CharValidator(fn, cs[i]))

\* The scan of "a" NUL U+00E9 by is_string_xml_chars has returned false
\* having examined "a" and NUL only.
C11_Witness ==
    /\ fn = "is_string_xml_chars"
    /\ arg = String_from_chars(<< \H61, \H0, \HE9 >>)
    /\ ~scan.running
    /\ scan.examined = << \H61, \H0 >>
    /\ ret = FALSE

\* C12: the subsets are nested.  A code point is_rune_unicode_assignable
\* accepts is accepted by is_rune_xml_char, and one is_rune_xml_char accepts
\* by is_rune_unicode_scalar; a string is_string_unicode_assignables accepts
\* is accepted by is_string_xml_chars; a byte sequence
\* is_utf8_unicode_assignables accepts is accepted by is_utf8_xml_chars and
\* by is_utf8_unicode_scalars.
C12_SubsetNesting ==
    /\ (fn = "is_rune_unicode_assignable" /\ ret) => is_rune_xml_char(arg)
    /\ (fn = "is_rune_xml_char" /\ ret) => is_rune_unicode_scalar(arg)
    /\ (fn = "is_string_unicode_assignables" /\ ret) => is_string_xml_chars(arg)
    /\ (fn = "is_utf8_unicode_assignables" /\ ret) =>
           (is_utf8_xml_chars(arg) /\ is_utf8_unicode_scalars(arg))

\* is_utf8_unicode_assignables has accepted "a" U+1F980 "z", which the XML
\* and scalar byte validators accept too.
C12_Witness ==
    /\ fn = "is_utf8_unicode_assignables"
    /\ arg = << \H61, \HF0, \H9F, \HA6, \H80, \H7A >>
    /\ ret = TRUE
    /\ is_utf8_xml_chars(arg)
    /\ is_utf8_unicode_scalars(arg)

====
